---- MODULE Spec2Model ----
(***************************************************************************)
(* Model of src/components/ui/Globe.tsx: the coordinate validator, the     *)
(* arc builder (_buildData), the colour parser (hexToRgb), the random      *)
(* sampler (genRandomNumbers) and the lifecycle of the Globe component     *)
(* (mount effect, globeData effects, ring interval, unmount).              *)
(***************************************************************************)
EXTENDS Integers, Sequences, FiniteSets, TLC

VARIABLES
    value,          \* validator: the number under test
    checked,        \* validator: which function was applied: "none", "lat" or "lng"
    valid,          \* validator: the boolean it returned (FALSE before the call)
    hex,            \* hexToRgb: the argument, a sequence of one-character strings
    rgb,            \* hexToRgb: the returned record, NoRgb before the call
    min, max, count,\* genRandomNumbers: the arguments
    arr,            \* genRandomNumbers: the Set, as the sequence of its elements in insertion order
    gpc,            \* genRandomNumbers: "idle" (not called), "loop", "returned"
    phase,          \* Globe: "unmounted" or "mounted"
    data,           \* Globe: the data prop of the latest render
    globeData,      \* Globe: the globeData state, Null or a list of points
    pending,        \* Globe: the queued setGlobeData update, Null when none
    globeRef,       \* Globe: TRUE iff globeRef.current is a ThreeGlobe
    intervals,      \* number of ring intervals created by setInterval and not yet cleared
    cleanup,        \* Globe: TRUE iff the interval effect returned its clearInterval cleanup
    arcsData,       \* renderer: the list last passed to arcsData
    pointsData,     \* renderer: the list last passed to pointsData
    ringsData,      \* renderer: the list last passed to ringsData
    started,        \* TRUE iff startAnimation has handed data to the renderer of this instance
    ticked          \* TRUE iff an interval callback has completed in this instance

vars == <<value, checked, valid, hex, rgb, min, max, count, arr, gpc,
          phase, data, globeData, pending, globeRef, intervals, cleanup,
          arcsData, pointsData, ringsData, started, ticked>>

validatorVars == <<value, checked, valid>>
hexVars == <<hex, rgb>>
genVars == <<min, max, count, arr, gpc>>
globeVars == <<phase, data, globeData, pending, globeRef, intervals, cleanup,
               arcsData, pointsData, ringsData, started, ticked>>

----------------------------------------------------------------------------
(* Bounds of the checked instances. *)

MaxAbs == 182          \* validator inputs are the integers in -MaxAbs..MaxAbs, NaN and the infinities
MaxLen == 7            \* longest hexToRgb argument
MaxArcs == 2           \* longest arc list given to _buildData on its own
MaxGlobeArcs == 2      \* longest data prop given to the Globe component
MaxIn == 3             \* genRandomNumbers: min and max range over -1..MaxIn
MaxCount == 4          \* genRandomNumbers: count ranges over -1..MaxCount

----------------------------------------------------------------------------
(* JavaScript numbers: a finite integer, NaN, or an infinity. *)

Num(n) == [k |-> "num", v |-> n]
NaN == [k |-> "nan", v |-> 0]
Infinity == [k |-> "inf", v |-> 1]
NegInfinity == [k |-> "inf", v |-> -1]

\* Number.isNaN
NumberIsNaN(x) == x.k = "nan"

\* Math.abs
MathAbs(x) ==
    CASE x.k = "nan" -> NaN
      [] x.k = "inf" -> Infinity
      [] OTHER -> Num(IF x.v < 0 THEN -x.v ELSE x.v)

\* a <= m for a number a and a finite integer m (false when a is NaN)
LessOrEqual(a, m) ==
    CASE a.k = "nan" -> FALSE
      [] a.k = "inf" -> a.v < 0
      [] OTHER -> a.v <= m

\* a === b on numbers (NaN is not equal to itself)
StrictEquals(a, b) == a.k # "nan" /\ b.k # "nan" /\ a = b

isValidCoordinate_NoAbs(val, m) == ~NumberIsNaN(val) /\ LessOrEqual(val, m)

isValidCoordinate(val, m) ==
    ~NumberIsNaN(val) /\ LessOrEqual(MathAbs(val), m)

isValidLat(lat) == isValidCoordinate(lat, 90)
isValidLng(lng) == isValidCoordinate(lng, 180)

----------------------------------------------------------------------------
(* hexToRgb.  A string is a sequence of one-character strings. *)

Digits == <<"0", "1", "2", "3", "4", "5", "6", "7", "8", "9">>
LowerAF == <<"a", "b", "c", "d", "e", "f">>
UpperAF == <<"A", "B", "C", "D", "E", "F">>

\* the character class [a-f\d] under the i flag
IsHexChar(c) ==
    \/ \E i \in 1..10 : Digits[i] = c
    \/ \E i \in 1..6 : LowerAF[i] = c \/ UpperAF[i] = c

\* the value parseInt gives one hex digit
HexVal(c) ==
    IF \E i \in 1..10 : Digits[i] = c
    THEN (CHOOSE i \in 1..10 : Digits[i] = c) - 1
    ELSE (CHOOSE i \in 1..6 : LowerAF[i] = c \/ UpperAF[i] = c) + 9

\* parseInt(s, 16) for a string of two hex digits
parseInt16(s) == 16 * HexVal(s[1]) + HexVal(s[2])

\* the capture groups of /^#?(g)...(g)$/i with n groups of w hex chars each,
\* as a sequence of strings, or <<>> when the string does not match
RegexGroups(s, n, w) ==
    LET off == IF Len(s) > 0 /\ s[1] = "#" THEN 1 ELSE 0
    IN  IF Len(s) - off = n * w /\ \A i \in (off + 1)..Len(s) : IsHexChar(s[i])
        THEN [g \in 1..n |-> SubSeq(s, off + (g - 1) * w + 1, off + g * w)]
        ELSE <<>>

\* hex.replace(shorthandRegex, (m, r, g, b) => r + r + g + g + b + b)
ExpandShorthand(s) ==
    LET m == RegexGroups(s, 3, 1)
    IN  IF m = <<>> THEN s
        ELSE m[1] \o m[1] \o m[2] \o m[2] \o m[3] \o m[3]

fallback == [r |-> 255, g |-> 255, b |-> 255]

hexToRgb_NoExpand(s) ==
    LET result == RegexGroups(s, 3, 2)
    IN  IF result # <<>>
        THEN [r |-> parseInt16(result[1]),
              g |-> parseInt16(result[2]),
              b |-> parseInt16(result[3])]
        ELSE fallback

hexToRgb(s) ==
    LET expanded == ExpandShorthand(s)
        result == RegexGroups(expanded, 3, 2)
    IN  IF result # <<>>
        THEN [r |-> parseInt16(result[1]),
              g |-> parseInt16(result[2]),
              b |-> parseInt16(result[3])]
        ELSE fallback

----------------------------------------------------------------------------
(* _buildData.  An arc is a Position record; a point carries the rgb its     *)
(* colour closure was built from.                                          *)

Null == [isNull |-> TRUE, list |-> <<>>]
Some(l) == [isNull |-> FALSE, list |-> l]

pointSize == 1

ArcIsValid(arc) ==
    /\ isValidLat(arc.startLat)
    /\ isValidLng(arc.startLng)
    /\ isValidLat(arc.endLat)
    /\ isValidLng(arc.endLng)

ValidArcs_StartOnly(d) ==
    SelectSeq(d, LAMBDA arc : isValidLat(arc.startLat) /\ isValidLng(arc.startLng))

\* data.filter(arc => all four coordinates valid)
ValidArcs(d) == SelectSeq(d, ArcIsValid)

StartPoint(arc) ==
    [size |-> pointSize, order |-> arc.order, color |-> hexToRgb(arc.color),
     lat |-> arc.startLat, lng |-> arc.startLng]

EndPoint(arc) ==
    [size |-> pointSize, order |-> arc.order, color |-> hexToRgb(arc.color),
     lat |-> arc.endLat, lng |-> arc.endLng]

\* validArcs.flatMap(arc => [start point, end point])
FlatMapPoints(validArcs) ==
    [i \in 1..(2 * Len(validArcs)) |->
        IF i % 2 = 1 THEN StartPoint(validArcs[(i + 1) \div 2])
                     ELSE EndPoint(validArcs[i \div 2])]

PointIsValid(v) == isValidLat(v.lat) /\ isValidLng(v.lng)

\* a.findIndex(v2 => v2.lat === v.lat && v2.lng === v.lng), 1-based, 0 when absent
FindIndex(a, v) ==
    LET hits == {j \in 1..Len(a) :
                    StrictEquals(a[j].lat, v.lat) /\ StrictEquals(a[j].lng, v.lng)}
    IN  IF hits = {} THEN 0 ELSE CHOOSE j \in hits : \A h \in hits : j <= h

\* a.filter((v, i) => keep.has(i)): the elements at the indexes in keep, in order
FilterByIndex(a, keep) ==
    LET F[i \in 0..Len(a)] ==
            IF i = 0 THEN <<>>
            ELSE IF i \in keep THEN Append(F[i - 1], a[i]) ELSE F[i - 1]
    IN  F[Len(a)]

IsFirstOccurrence(a, i) == FindIndex(a, a[i]) = i
IsLastOccurrence(a, i) ==
    \A j \in (i + 1)..Len(a) :
        ~(StrictEquals(a[j].lat, a[i].lat) /\ StrictEquals(a[j].lng, a[i].lng))

Dedup_KeepLast(a) == FilterByIndex(a, {i \in 1..Len(a) : IsLastOccurrence(a, i)})

\* .filter((v, i, a) => a.findIndex(same lat and lng) === i)
Dedup(a) == FilterByIndex(a, {i \in 1..Len(a) : IsFirstOccurrence(a, i)})

\* the list _buildData passes to setGlobeData
BuildData(d) ==
    LET validArcs == ValidArcs(d)
        points == FlatMapPoints(validArcs)
        filteredPoints == Dedup(SelectSeq(points, PointIsValid))
    IN  filteredPoints

----------------------------------------------------------------------------
(* genRandomNumbers: the loop, one draw per step. *)

RandomDraws_NoPlusOne(lo, hi) ==
    IF hi - lo > 0 THEN lo..(hi - 1)
    ELSE hi..lo

\* the values Math.floor(Math.random() * (hi - lo + 1)) + lo can take,
\* Math.random() ranging over [0, 1)
RandomDraws(lo, hi) ==
    IF hi - lo + 1 > 0 THEN lo..hi
    ELSE (hi + 1)..lo

\* arr.has(x)
Has(a, x) == \E i \in 1..Len(a) : a[i] = x

\* arr.add(x)
SetAdd(a, x) == IF Has(a, x) THEN a ELSE Append(a, x)

LoopCondition_OffByOne(size, n) == size <= n

\* while (arr.size < count)
LoopCondition(size, n) == size < n

\* one iteration: draw r and add it
GenDraw(r) ==
    /\ gpc = "loop"
    /\ LoopCondition(Len(arr), count)
    /\ r \in RandomDraws(min, max)
    /\ arr' = SetAdd(arr, r)
    /\ UNCHANGED <<min, max, count, gpc>>
    /\ UNCHANGED <<validatorVars, hexVars, globeVars>>

\* the loop exits: return Array.from(arr)
GenReturn ==
    /\ gpc = "loop"
    /\ ~LoopCondition(Len(arr), count)
    /\ gpc' = "returned"
    /\ UNCHANGED <<min, max, count, arr>>
    /\ UNCHANGED <<validatorVars, hexVars, globeVars>>

----------------------------------------------------------------------------
(* The Globe component. *)

\* startAnimation's three renderer calls (arcsData, pointsData, ringsData)
startAnimation(d, gd) ==
    /\ arcsData' = ValidArcs(d)
    /\ pointsData' = gd.list
    /\ ringsData' = <<>>
    /\ started' = TRUE

\* globeData.filter((_, i) => ringIndexes.includes(i))
RingSubset(list, ringIndexes) ==
    FilterByIndex(list, {i \in 1..Len(list) : Has(ringIndexes, i - 1)})

SeqsUpTo(S, n) == UNION {[1..k -> S] : k \in 0..n}

ArcA == [order |-> 0, startLat |-> Num(10), startLng |-> Num(20),
         endLat |-> Num(-90), endLng |-> Num(20), color |-> <<"#", "a", "b", "c">>]
ArcB == [order |-> 1, startLat |-> Num(10), startLng |-> Num(20),
         endLat |-> Num(30), endLng |-> Num(180), color |-> <<"9", "3", "7", "0", "D", "B">>]
ArcC == [order |-> 2, startLat |-> Num(200), startLng |-> Num(20),
         endLat |-> Num(30), endLng |-> Num(180), color |-> <<"r", "e", "d">>]

\* the arc lists a caller passes as the data prop: lists of distinct arcs
GlobeInputs ==
    {d \in SeqsUpTo({ArcA, ArcB, ArcC}, MaxGlobeArcs) :
        \A i, j \in 1..Len(d) : i # j => d[i] # d[j]}

\* first render and commit of a new instance (the ref is attached at commit,
\* before the effects), then its three effects: the mount effect calls
\* _buildData, the two effects on [globeData] return at their guard
Mount(d) ==
    /\ phase = "unmounted"
    /\ gpc = "idle"
    /\ phase' = "mounted"
    /\ data' = d
    /\ globeData' = Null
    /\ globeRef' = TRUE
    /\ arcsData' = <<>>
    /\ pointsData' = <<>>
    /\ ringsData' = <<>>
    /\ started' = FALSE
    /\ ticked' = FALSE
    /\ pending' = Some(BuildData(d))
    /\ cleanup' = FALSE
    /\ UNCHANGED intervals
    /\ UNCHANGED <<validatorVars, hexVars, genVars>>

\* the render that applies the queued setGlobeData, and the two effects on [globeData]
Render ==
    /\ phase = "mounted"
    /\ gpc = "idle"
    /\ ~pending.isNull
    /\ globeData' = pending
    /\ pending' = Null
    /\ IF globeRef
       THEN /\ startAnimation(data, pending)
            /\ intervals' = (IF cleanup THEN intervals - 1 ELSE intervals) + 1
            /\ cleanup' = TRUE
       ELSE /\ intervals' = (IF cleanup THEN intervals - 1 ELSE intervals)
            /\ cleanup' = FALSE
            /\ UNCHANGED <<arcsData, pointsData, ringsData, started>>
    /\ UNCHANGED <<phase, data, globeRef, ticked>>
    /\ UNCHANGED <<validatorVars, hexVars, genVars>>

\* the parent renders the component with another data prop
DataChange(d) ==
    /\ phase = "mounted"
    /\ gpc = "idle"
    /\ d # data
    /\ data' = d
    /\ UNCHANGED <<phase, globeData, pending, globeRef, intervals, cleanup,
                   arcsData, pointsData, ringsData, started, ticked>>
    /\ UNCHANGED <<validatorVars, hexVars, genVars>>

RingCount_Ceil(n) == (n * 4 + 4) \div 5

\* Math.floor((globeData.length * 4) / 5)
RingCount(n) == (n * 4) \div 5

\* the interval fires: the callback calls genRandomNumbers on the globeData of
\* the effect that created the interval
TickStart ==
    /\ intervals > 0
    /\ gpc = "idle"
    /\ min' = 0
    /\ max' = Len(globeData.list) - 1
    /\ count' = RingCount(Len(globeData.list))
    /\ arr' = <<>>
    /\ gpc' = "loop"
    /\ UNCHANGED <<validatorVars, hexVars, globeVars>>

\* genRandomNumbers has returned: the callback passes the selected points to ringsData
TickFinish ==
    /\ gpc = "returned"
    /\ gpc' = "idle"
    /\ ringsData' = IF globeRef THEN RingSubset(globeData.list, arr) ELSE ringsData
    /\ ticked' = TRUE
    /\ UNCHANGED <<min, max, count, arr>>
    /\ UNCHANGED <<phase, data, globeData, pending, globeRef, intervals, cleanup,
                   arcsData, pointsData, started>>
    /\ UNCHANGED <<validatorVars, hexVars>>

Unmount_NoClear ==
    /\ phase = "mounted"
    /\ gpc = "idle"
    /\ phase' = "unmounted"
    /\ globeRef' = FALSE
    /\ pending' = Null
    /\ cleanup' = FALSE
    /\ UNCHANGED <<data, globeData, intervals, arcsData, pointsData, ringsData,
                   started, ticked>>
    /\ UNCHANGED <<validatorVars, hexVars, genVars>>

\* the component is removed: the ref is detached and the effect cleanup runs
Unmount ==
    /\ phase = "mounted"
    /\ gpc = "idle"
    /\ phase' = "unmounted"
    /\ globeRef' = FALSE
    /\ pending' = Null
    /\ intervals' = IF cleanup THEN intervals - 1 ELSE intervals
    /\ cleanup' = FALSE
    /\ UNCHANGED <<data, globeData, arcsData, pointsData, ringsData, started, ticked>>
    /\ UNCHANGED <<validatorVars, hexVars, genVars>>

----------------------------------------------------------------------------
(* Calls of the pure functions on their own. *)

\* isValidLat(value)
CheckLat ==
    /\ checked = "none"
    /\ checked' = "lat"
    /\ valid' = isValidLat(value)
    /\ UNCHANGED <<value, hexVars, genVars, globeVars>>

\* isValidLng(value)
CheckLng ==
    /\ checked = "none"
    /\ checked' = "lng"
    /\ valid' = isValidLng(value)
    /\ UNCHANGED <<value, hexVars, genVars, globeVars>>

NoRgb == [r |-> -1, g |-> -1, b |-> -1]

\* rgb = hexToRgb(hex)
ParseHex ==
    /\ rgb = NoRgb
    /\ rgb' = hexToRgb(hex)
    /\ UNCHANGED <<hex, validatorVars, genVars, globeVars>>

\* _buildData() on the data prop: the list goes to setGlobeData
BuildDataCall ==
    /\ pending.isNull
    /\ pending' = Some(BuildData(data))
    /\ UNCHANGED <<phase, data, globeData, globeRef, intervals, cleanup,
                   arcsData, pointsData, ringsData, started, ticked>>
    /\ UNCHANGED <<validatorVars, hexVars, genVars>>

----------------------------------------------------------------------------
(* Inputs and specifications. *)

Values == {Num(n) : n \in (-MaxAbs)..MaxAbs} \cup {NaN, Infinity, NegInfinity}

Alphabet == {"#", "0", "a", "F", "g"}
Strings == SeqsUpTo(Alphabet, MaxLen)

\* (lat, lng) pairs: three valid ones, one with the latitude out of range,
\* one with a NaN longitude
Coords == {<<Num(10), Num(20)>>, <<Num(-90), Num(-180)>>, <<Num(10), Num(-180)>>,
           <<Num(200), Num(20)>>, <<Num(10), NaN>>}
Orders == {0, 1}
Arcs == {[order |-> o, startLat |-> s[1], startLng |-> s[2],
          endLat |-> e[1], endLng |-> e[2], color |-> <<"#", "a", "b", "c">>] :
            o \in Orders, s \in Coords, e \in Coords}
ArcLists == SeqsUpTo(Arcs, MaxArcs)

InRange == (-1)..MaxIn
Counts == (-1)..MaxCount

ValidatorIdle == value = Num(0) /\ checked = "none" /\ valid = FALSE
HexIdle == hex = <<>> /\ rgb = NoRgb
GenIdle == min = 0 /\ max = 0 /\ count = 0 /\ arr = <<>> /\ gpc = "idle"
GlobeIdle ==
    /\ phase = "unmounted"
    /\ data = <<>>
    /\ globeData = Null
    /\ pending = Null
    /\ globeRef = FALSE
    /\ intervals = 0
    /\ cleanup = FALSE
    /\ arcsData = <<>>
    /\ pointsData = <<>>
    /\ ringsData = <<>>
    /\ started = FALSE
    /\ ticked = FALSE

InitValid ==
    /\ value \in Values /\ checked = "none" /\ valid = FALSE
    /\ HexIdle /\ GenIdle /\ GlobeIdle
NextValid == CheckLat \/ CheckLng
SpecValid == InitValid /\ [][NextValid]_vars

InitHex ==
    /\ hex \in Strings /\ rgb = NoRgb
    /\ ValidatorIdle /\ GenIdle /\ GlobeIdle
NextHex == ParseHex
SpecHex == InitHex /\ [][NextHex]_vars

InitBuild ==
    /\ data \in ArcLists
    /\ phase = "unmounted" /\ globeData = Null /\ pending = Null
    /\ globeRef = FALSE /\ intervals = 0 /\ cleanup = FALSE
    /\ arcsData = <<>> /\ pointsData = <<>> /\ ringsData = <<>>
    /\ started = FALSE /\ ticked = FALSE
    /\ ValidatorIdle /\ HexIdle /\ GenIdle
NextBuild == BuildDataCall
SpecBuild == InitBuild /\ [][NextBuild]_vars

InitRand ==
    /\ min \in InRange /\ max \in InRange /\ count \in Counts
    /\ arr = <<>> /\ gpc = "loop"
    /\ ValidatorIdle /\ HexIdle /\ GlobeIdle
NextRand == (\E r \in InRange : GenDraw(r)) \/ GenReturn
SpecRand == InitRand /\ [][NextRand]_vars
\* fair draws: every value of the range is eventually drawn, and the loop test is taken
SpecRandFair ==
    /\ SpecRand
    /\ \A r \in InRange : WF_vars(GenDraw(r))
    /\ WF_vars(GenReturn)

InitGlobe == ValidatorIdle /\ HexIdle /\ GenIdle /\ GlobeIdle
NextGlobe ==
    \/ \E d \in GlobeInputs : Mount(d)
    \/ Render
    \/ \E d \in GlobeInputs : DataChange(d)
    \/ TickStart
    \/ \E r \in 0..(2 * MaxGlobeArcs) : GenDraw(r)
    \/ GenReturn
    \/ TickFinish
    \/ Unmount
SpecGlobe == InitGlobe /\ [][NextGlobe]_vars
\* fair draws inside a callback, and a started callback runs to its end
SpecGlobeFair ==
    /\ SpecGlobe
    /\ \A r \in 0..(2 * MaxGlobeArcs) : WF_vars(GenDraw(r))
    /\ WF_vars(GenReturn)
    /\ WF_vars(TickFinish)

----------------------------------------------------------------------------
(* Properties. *)

\* v is a number (not NaN) with lo <= v <= hi
InClosedRange(x, lo, hi) == x.k = "num" /\ lo <= x.v /\ x.v <= hi

\* C8: isValidLat(v) is true iff v is not NaN and -90 <= v <= 90, and
\* isValidLng(v) is true iff v is not NaN and -180 <= v <= 180.
C8_ValidatorRanges ==
    /\ checked = "lat" => (valid <=> InClosedRange(value, -90, 90))
    /\ checked = "lng" => (valid <=> InClosedRange(value, -180, 180))

\* the boundary -180 is accepted as a longitude
C8_Witness == checked = "lng" /\ value = Num(-180) /\ valid

HexChars ==
    {"0", "1", "2", "3", "4", "5", "6", "7", "8", "9",
     "a", "b", "c", "d", "e", "f", "A", "B", "C", "D", "E", "F"}

\* the string without its optional leading '#'
WithoutHash(s) == IF s # <<>> /\ Head(s) = "#" THEN Tail(s) ELSE s

AllHexDigits(s) == \A i \in 1..Len(s) : s[i] \in HexChars

DoubleChars(s) == [i \in 1..(2 * Len(s)) |-> s[(i + 1) \div 2]]

\* C7: hexToRgb returns channels in 0..255; 6 hex digits (optional '#') give
\* their three byte values, 3 hex digits (optional '#') give the result of
\* the character-doubled form, every other string gives {255, 255, 255}.
C7_HexToRgb ==
    rgb # NoRgb =>
        LET body == WithoutHash(hex)
        IN  /\ rgb.r \in 0..255 /\ rgb.g \in 0..255 /\ rgb.b \in 0..255
            /\ (Len(body) = 6 /\ AllHexDigits(body)) =>
                   rgb = [r |-> 16 * HexVal(body[1]) + HexVal(body[2]),
                          g |-> 16 * HexVal(body[3]) + HexVal(body[4]),
                          b |-> 16 * HexVal(body[5]) + HexVal(body[6])]
            /\ (Len(body) = 3 /\ AllHexDigits(body)) =>
                   /\ rgb = [r |-> 17 * HexVal(body[1]),
                             g |-> 17 * HexVal(body[2]),
                             b |-> 17 * HexVal(body[3])]
                   /\ rgb = hexToRgb(<<"#">> \o DoubleChars(body))
            /\ ~(Len(body) \in {3, 6} /\ AllHexDigits(body)) => rgb = fallback

\* "#aF0" parsed as "#aaFF00"
C7_Witness ==
    hex = <<"#", "a", "F", "0">> /\ rgb = [r |-> 170, g |-> 255, b |-> 0]

\* the list _buildData produced
Built == pending.list

SameCoord(p, q) == p.lat = q.lat /\ p.lng = q.lng

\* start(arc1), end(arc1), start(arc2), end(arc2), ... of the arcs that pass the filter
Emitted == FlatMapPoints(ValidArcs(data))

\* the index in e of the first point with p's coordinates
FirstEmitted(e, p) ==
    CHOOSE j \in 1..Len(e) :
        /\ SameCoord(e[j], p)
        /\ \A h \in 1..(j - 1) : ~SameCoord(e[h], p)

\* C1: the output of _buildData has no two points with the same (lat, lng),
\* each retained point is the earliest emitted one for its coordinate, and
\* retained points keep the order of the emitted sequence.
C1_DedupFirstSeen ==
    ~pending.isNull =>
        LET e == Emitted
            b == Built
        IN  /\ \A i, j \in 1..Len(b) : i # j => ~SameCoord(b[i], b[j])
            /\ \A j \in 1..Len(e) : \E i \in 1..Len(b) : SameCoord(b[i], e[j])
            /\ \A i \in 1..Len(b) :
                  /\ \E j \in 1..Len(e) : SameCoord(e[j], b[i])
                  /\ b[i] = e[FirstEmitted(e, b[i])]
            /\ \A i, j \in 1..Len(b) :
                  i < j => FirstEmitted(e, b[i]) < FirstEmitted(e, b[j])

\* two valid arcs of different order share their start; three points are kept
C1_Witness ==
    /\ ~pending.isNull
    /\ Len(data) = 2
    /\ data[1].order # data[2].order
    /\ data[1].startLat = data[2].startLat /\ data[1].startLng = data[2].startLng
    /\ Len(Emitted) = 4
    /\ Len(Built) = 3

AllFourInRange(arc) ==
    /\ InClosedRange(arc.startLat, -90, 90)
    /\ InClosedRange(arc.startLng, -180, 180)
    /\ InClosedRange(arc.endLat, -90, 90)
    /\ InClosedRange(arc.endLng, -180, 180)

IsEndpointOf(p, arc) ==
    /\ p.order = arc.order
    /\ \/ p.lat = arc.startLat /\ p.lng = arc.startLng
       \/ p.lat = arc.endLat /\ p.lng = arc.endLng

\* C2: every output point of _buildData is the start or end of an arc whose
\* four coordinates are all valid; an arc with an out-of-range or NaN
\* coordinate contributes neither of its points.
C2_InvalidArcExcluded ==
    ~pending.isNull =>
        \A i \in 1..Len(Built) :
            \E k \in 1..Len(data) :
                AllFourInRange(data[k]) /\ IsEndpointOf(Built[i], data[k])

\* an arc with a valid start and an invalid end next to a valid arc: its
\* start coordinate is not in the output
C2_Witness ==
    /\ ~pending.isNull
    /\ Len(Built) > 0
    /\ \E k \in 1..Len(data) :
          /\ InClosedRange(data[k].startLat, -90, 90)
          /\ InClosedRange(data[k].startLng, -180, 180)
          /\ ~AllFourInRange(data[k])
          /\ \A i \in 1..Len(Built) :
                ~(Built[i].lat = data[k].startLat /\ Built[i].lng = data[k].startLng)

\* C3: for min <= max and 0 <= count <= max-min+1, the returned array has
\* exactly count elements, pairwise distinct, each an integer in min..max;
\* genRandomNumbers(0, 0, 1) returns [0].
C3_SamplerResult ==
    (gpc = "returned" /\ min <= max /\ 0 <= count /\ count <= max - min + 1) =>
        /\ Len(arr) = count
        /\ \A i, j \in 1..Len(arr) : i # j => arr[i] # arr[j]
        /\ \A i \in 1..Len(arr) : arr[i] \in min..max
        /\ (min = 0 /\ max = 0 /\ count = 1) => arr = <<0>>

\* genRandomNumbers(0, 3, 3) has returned three values, drawn in a non-sorted order
C3_Witness ==
    /\ gpc = "returned" /\ min = 0 /\ max = 3 /\ count = 3
    /\ Len(arr) = 3 /\ arr[1] > arr[2]

\* the number of integers in [lo, hi]
IntegersIn(lo, hi) == IF lo <= hi THEN hi - lo + 1 ELSE 0

TerminatesInRange ==
    [](gpc = "loop" /\ 0 <= count /\ count <= max - min + 1 => <>(gpc = "returned"))

\* C4 as stated: a call with count greater than the number of integers in
\* [min, max] never returns, and a call with 0 <= count <= max-min+1 returns
\* under fair draws.
C4_AsStated ==
    /\ [](count > IntegersIn(min, max) => gpc # "returned")
    /\ TerminatesInRange

\* C4 amended: for min <= max, a call with count greater than max-min+1 never
\* returns, and a call with 0 <= count <= max-min+1 returns under fair draws.
C4_NeverReturnsBeyondRange ==
    /\ []((min <= max /\ count > max - min + 1) => gpc # "returned")
    /\ TerminatesInRange

\* a call with count above the range size has drawn every value and still loops
C4_WitnessStuck ==
    /\ gpc = "loop" /\ min <= max /\ count > max - min + 1
    /\ Len(arr) = max - min + 1

\* C5: once the component is torn down no ring interval is active, no
\* callback is running and ringsData is not called again; every interval the
\* interval effect created is the one its cleanup clears.
C5_TimerCancelled ==
    /\ [](phase = "unmounted" => intervals = 0 /\ gpc = "idle")
    /\ [](intervals = IF cleanup THEN 1 ELSE 0)
    /\ [][phase = "unmounted" /\ phase' = "unmounted" => ringsData' = ringsData]_vars

\* an instance whose interval had ticked has been torn down
C5_Witness ==
    phase = "unmounted" /\ started /\ ticked /\ ringsData # <<>> /\ intervals = 0

\* s is t restricted to some set of its indexes, in t's order
IsSubList(s, t) ==
    \E I \in SUBSET (1..Len(t)) : s = FilterByIndex(t, I)

\* C9 (state part): a tick calls genRandomNumbers(0, n-1, floor(4n/5)) with n
\* the length of the point list; the count does not exceed the range size n,
\* so a value not yet drawn remains while the loop runs; after a tick
\* ringsData is a sub-list of the point list with exactly floor(4n/5)
\* distinct points, and it is empty before the first tick.
RingSampleInv ==
    LET n == Len(globeData.list)
    IN  /\ gpc \in {"loop", "returned"} =>
              /\ min = 0 /\ max = n - 1 /\ count = (4 * n) \div 5
              /\ count <= n
              /\ (gpc = "loop" /\ Len(arr) < count) =>
                    \E r \in RandomDraws(min, max) : ~Has(arr, r)
        /\ ticked =>
              /\ IsSubList(ringsData, globeData.list)
              /\ Len(ringsData) = (4 * n) \div 5
              /\ \A i, j \in 1..Len(ringsData) :
                    i # j => ~SameCoord(ringsData[i], ringsData[j])
        /\ ~ticked => ringsData = <<>>

\* C9: on every tick the sampler is called as genRandomNumbers(0, n-1,
\* floor(4n/5)), the rings data is the sub-list described above, and no tick
\* hangs in the sampler loop: under fair draws every callback completes.
C9_RingSample ==
    /\ []RingSampleInv
    /\ (gpc = "loop" ~> gpc = "idle")

\* a tick over three points has handed two of them to ringsData
C9_Witness ==
    /\ ticked /\ gpc = "idle" /\ phase = "mounted"
    /\ Len(globeData.list) = 3 /\ Len(ringsData) = 2

\* C6: with no render queued, the point list held in globeData and handed to
\* the renderer is the output of _buildData for the current data prop.
C6_PointsFollowData ==
    (phase = "mounted" /\ pending.isNull /\ gpc = "idle") =>
        /\ globeData = Some(BuildData(data))
        /\ pointsData = BuildData(data)

CoordsOfPoints(ps) == {<<ps[i].lat, ps[i].lng>> : i \in 1..Len(ps)}
CoordsOfArcs(as) ==
    {<<as[i].startLat, as[i].startLng>> : i \in 1..Len(as)}
        \cup {<<as[i].endLat, as[i].endLng>> : i \in 1..Len(as)}

\* C10: the arcs startAnimation passes to arcsData are exactly the arcs of the
\* data prop (of the render that calls it) whose four coordinates are valid,
\* in input order; and once it has run, the coordinates of pointsData are the
\* start and end coordinates of the arcs in arcsData.
C10_ArcsMatchPoints ==
    /\ [][(~started /\ started') => arcsData' = SelectSeq(data', AllFourInRange)]_vars
    /\ []((phase = "mounted" /\ started) =>
            CoordsOfPoints(pointsData) = CoordsOfArcs(arcsData))

====
